---- MODULE Spec2Model ----
(***************************************************************************)
(* Model of validate_zipped_shapefile and of the window that calls it     *)
(* (src/shapefile_validator.py).  Spec is one call, SpecConc and SpecTwice *)
(* are two calls over one file system, SpecGUI is the window with its      *)
(* worker threads.                                                         *)
(*                                                                         *)
(* One validation call is a sequence of steps over a target (the object    *)
(* the path names, fixed for the duration of the call) and a workspace     *)
(* (the temporary directory of the call).  The target is drawn in Init     *)
(* from every combination the bounds allow; the library calls that can     *)
(* fail for reasons outside the target (mkdtemp, writing extracted files,  *)
(* directory traversal, recursive removal) fail nondeterministically.      *)
(***************************************************************************)
EXTENDS Integers, Sequences, FiniteSets, TLC

VARIABLES
    target,     \* what zip_path names: see Targets
    pc,         \* position of the call in validate_zipped_shapefile
    ws,         \* the TemporaryDirectory: [state, files]
    shp_files,  \* list(Path(temp_dir).rglob("*.shp")), as a sequence of paths
    shp_path,   \* shp_files[0]
    ext_i,      \* index of the for loop over [".shx", ".dbf"]
    gdf,        \* number of rows of the GeoDataFrame read, -1 before the read
    ret,        \* the value of a return statement executed inside the with block
    exc,        \* the exception in flight
    result,     \* the tuple handed to the caller, <<>> before the call ends
    checks,     \* history: the checks executed so far, in order
    faultAt     \* history: the step at which a library call failed for a
                \* reason outside the target, "none" otherwise

vars == <<target, pc, ws, shp_files, shp_path, ext_i, gdf, ret, exc, result,
          checks, faultAt>>

\* Several calls over one file system (used by SpecConc and SpecTwice).
VARIABLES
    disk,       \* the objects the paths name, by path
    tmproot,    \* the system's temporary directory: per name, a directory or not
    calls       \* per call, zip_path and the locals of validate_zipped_shapefile

callVars == <<disk, tmproot, calls>>

\* The window of ShapefileValidatorGUI and its worker threads (used by
\* SpecGUI).
VARIABLES
    files,         \* self.files: the entries of the dict in insertion order,
                   \* a removed key leaving a dummy entry
    file_list,     \* the items of the Listbox
    file_count,    \* the text of file_count_label: <<count, noun>>
    validate_btn,  \* state of the Validate Shapefiles button
    browse_btn,    \* state of the Browse button
    status_text,   \* the content of the status display
    progress,      \* progress['value'], as [done, of]: done * (100.0 / of)
    workers,       \* the threads started by validate_threaded, in order,
                   \* each with the locals of validate_files
    afterq         \* callbacks scheduled with root.after(0, ...), in order

guiVars == <<files, file_list, file_count, validate_btn, browse_btn,
             status_text, progress, workers, afterq>>

(***************************************************************************)
(* Bounds and vocabularies.                                                *)
(***************************************************************************)
MaxFeatures == 2

\* Paths a caller may pass.
Paths == {"a.zip", "dir/b.zip"}

\* Base paths of datasets inside an archive: two datasets of one nested
\* directory, which a traversal lists in the order the file system gives.
Bases == {"sub/points", "sub/lines"}

\* Extensions of the components the code looks at.
Exts == {".shp", ".shx", ".dbf"}

\* An extracted entry is absent, a regular file, or a directory.
EntryKinds == {"absent", "file", "dir"}

\* Messages of the dataset reader's exceptions.
ParserMsgs == {"Unable to open .shx", "Failed to read all values"}

Trees == [Bases -> [Exts -> EntryKinds]]

EmptyTree == [b \in Bases |-> [e \in Exts |-> "absent"]]

\* Optional[str]
None == <<>>

Some(s) == <<s>>

NoExc == [cls |-> "none", msg |-> ""]

(***************************************************************************)
(* The target of the call.                                                 *)
(*   isPath   - the argument is a str (os.path.exists raises TypeError     *)
(*              for None and other non-path objects)                       *)
(*   exists   - os.stat on the path succeeds                               *)
(*   readable - open(path, "rb") succeeds (false for a directory or a file *)
(*              without read permission)                                   *)
(*   endrec   - the bytes hold an end-of-central-directory record, which   *)
(*              is all zipfile.is_zipfile looks for                        *)
(*   defect   - the exception class ZipFile()/extractall raise on the      *)
(*              archive's own structure, "none" for a sound archive:       *)
(*              BadZipFile (bad central directory, bad CRC-32),            *)
(*              zlib.error (corrupt deflate stream), RuntimeError          *)
(*              (encrypted entry)                                          *)
(*   tree     - the entries the archive holds                              *)
(*   parse    - per dataset, what the reader makes of it: an error         *)
(*              message or a number of features                            *)
(***************************************************************************)
Defects == {"none", "BadZipFile", "zlib.error", "RuntimeError"}

ParseOutcomes ==
    {[err |-> "none", n |-> k] : k \in 0..MaxFeatures}
        \cup {[err |-> m, n |-> 0] : m \in ParserMsgs}

NoParse == [err |-> "none", n |-> 0]

\* What the reader can make of dataset b of tree t: nothing to say when there
\* is no .shp entry, an error when the .shp entry is an (empty) directory.
ParseChoices(t, b) ==
    CASE t[b][".shp"] = "absent" -> {NoParse}
      [] t[b][".shp"] = "dir"    -> {o \in ParseOutcomes : o.err # "none"}
      [] OTHER                   -> ParseOutcomes

NoObject(p, isp) ==
    [path |-> p, isPath |-> isp, exists |-> FALSE, readable |-> FALSE,
     endrec |-> FALSE, defect |-> "none", tree |-> EmptyTree,
     parse |-> [b \in Bases |-> NoParse]]

\* An existing object that is not an archive: unreadable (r false), or
\* readable without an end record.
NotArchive(p, r) == [NoObject(p, TRUE) EXCEPT !.exists = TRUE, !.readable = r]

\* An object with an end record whose structure has defect d.
Defective(p, d, t) ==
    [NoObject(p, TRUE) EXCEPT !.exists = TRUE, !.readable = TRUE,
                              !.endrec = TRUE, !.defect = d, !.tree = t]

\* A sound archive holding tree t whose datasets read as ps.
Sound(p, t, ps) ==
    [NoObject(p, TRUE) EXCEPT !.exists = TRUE, !.readable = TRUE,
                              !.endrec = TRUE, !.tree = t, !.parse = ps]

\* The targets a call can be given.
IsTarget(x) ==
    \/ \E p \in Paths, isp \in BOOLEAN : x = NoObject(p, isp)
    \/ \E p \in Paths, r \in BOOLEAN : x = NotArchive(p, r)
    \/ \E p \in Paths, d \in Defects \ {"none"}, t \in Trees : x = Defective(p, d, t)
    \/ \E p \in Paths, t \in Trees :
         \E ps \in [Bases -> ParseOutcomes] :
            /\ \A b \in Bases : ps[b] \in ParseChoices(t, b)
            /\ x = Sound(p, t, ps)

(***************************************************************************)
(* Library calls, as the code uses them.                                   *)
(***************************************************************************)
\* An existence test that also asks for read access (os.access(p, os.R_OK)).
OsPathExistsReadable(t) == t.exists /\ t.readable

\* os.path.exists(zip_path): False when os.stat fails.
OsPathExists(t) == t.exists

\* A container test that accepts whatever can be opened.
IsZipfileAnyReadable(t) == t.readable

\* zipfile.is_zipfile(zip_path): opens the file and looks for the end
\* record; an OSError from open is swallowed and gives False.
IsZipfile(t) == t.readable /\ t.endrec

\* The exception class of ZipFile(zip_path, "r") followed by extractall,
\* "none" when every entry is written.
ExtractOutcome(t) ==
    IF ~t.exists \/ ~t.readable THEN "OSError"
    ELSE IF ~t.endrec THEN "BadZipFile"
    ELSE t.defect

\* str(e) of the exceptions the library calls raise.
ExcText(cls) ==
    CASE cls = "TypeError"    -> "stat: path should be string"
      [] cls = "OSError"      -> "No space left on device"
      [] cls = "BadZipFile"   -> "Bad CRC-32 for file"
      [] cls = "zlib.error"   -> "Error -3 while decompressing data"
      [] cls = "RuntimeError" -> "password required for extraction"
      [] OTHER                -> ""

Raise(cls) == [cls |-> cls, msg |-> ExcText(cls)]

\* Python's class hierarchy for the classes above: issubclass(cls, handler).
Catches(handler, cls) ==
    \/ handler = cls
    \/ handler = "Exception" /\ cls \in {"TypeError", "OSError", "BadZipFile",
                                         "zlib.error", "RuntimeError",
                                         "ReadError"}

\* A pattern that also matches index files ("*.sh?").
RglobLoose(tree) ==
    {p \in Bases \X {".shp", ".shx"} : tree[p[1]][p[2]] # "absent"}

\* Path(temp_dir).rglob("*.shp"): every entry, file or directory, whose name
\* ends in .shp.  A path is <<base, extension>>.
Rglob(tree) == {<<b, ".shp">> : b \in {x \in Bases : tree[x][".shp"] # "absent"}}

\* The orders in which a traversal can list a set of paths.
Listings(S) ==
    {q \in [1..Cardinality(S) -> S] : \A p \in S : \E i \in DOMAIN q : q[i] = p}

\* str(shp_path)[:-4]: the path without its last four characters.
BasePath(p) == p[1]

\* A component test that finds everything.
ExistsInWorkspaceAlways(tree, base, ext) == TRUE

\* os.path.exists(base_path + ext) inside the workspace: true for a file and
\* for a directory.
ExistsInWorkspace(tree, base, ext) == tree[base][ext] # "absent"

\* The attribute table checked before the index.
RequiredExtsDbfFirst == <<".dbf", ".shx">>

\* The extensions checked, in the order of the for loop.
RequiredExts == <<".shx", ".dbf">>

(***************************************************************************)
(* The messages of the verdicts.                                           *)
(***************************************************************************)
NotFoundMsg(p) == "File not found: " \o p

NotAZipMsg == "File is not a valid zip archive"

CorruptMsg == "Corrupt zip file - cannot extract contents"

NoShpMsg == "No .shp file found in zip archive"

MissingMsg(ext) == "Missing required shapefile component: " \o ext

ReadErrorMsg(m) == "Error reading shapefile: " \o m

EmptyMsg == "Shapefile contains no features"

UnexpectedMsg(m) == "Unexpected error: " \o m

\* A failure that carries no message.
FailNoMessage(m) == <<FALSE, None>>

Fail(m) == <<FALSE, Some(m)>>

Ok == <<TRUE, None>>

(***************************************************************************)
(* The call.                                                               *)
(***************************************************************************)
Init ==
    /\ IsTarget(target)
    /\ pc = "exists"
    /\ ws = [state |-> "none", files |-> EmptyTree]
    /\ shp_files = <<>>
    /\ shp_path = <<>>
    /\ ext_i = 1
    /\ gdf = -1
    /\ ret = <<>>
    /\ exc = NoExc
    /\ result = <<>>
    /\ checks = <<>>
    /\ faultAt = "none"

\* Handlers of the try statements.
ExtractHandler == "BadZipFile"

\* A read handler that only expects I/O errors.
ReadHandlerNarrow == "OSError"

ReadHandler == "Exception"

\* An outer handler that only expects archive errors.
OuterHandlerNarrow == "BadZipFile"

OuterHandler == "Exception"

\* return <value> inside the with block: the value is kept while the block
\* is left through TemporaryDirectory.__exit__.
ReturnInWith(v) ==
    /\ ret' = v
    /\ pc' = "exit"

\* An exception leaving the with block.
RaiseInWith(e) ==
    /\ exc' = e
    /\ pc' = "exit"

\* Lines 317-319: if not os.path.exists(zip_path): return False, "File not found"
CheckExists ==
    /\ pc = "exists"
    /\ checks' = Append(checks, "exists")
    /\ IF ~target.isPath
         THEN /\ exc' = Raise("TypeError")
              /\ pc' = "except"
              /\ faultAt' = "exists"
              /\ UNCHANGED result
         ELSE /\ IF ~OsPathExists(target)
                   THEN /\ result' = Fail(NotFoundMsg(target.path))
                        /\ pc' = "done"
                   ELSE /\ pc' = "is_zipfile"
                        /\ UNCHANGED result
              /\ UNCHANGED <<exc, faultAt>>
    /\ UNCHANGED <<target, ws, shp_files, shp_path, ext_i, gdf, ret>>

\* Lines 321-323: if not zipfile.is_zipfile(zip_path): return False, ...
CheckIsZip ==
    /\ pc = "is_zipfile"
    /\ checks' = Append(checks, "zip")
    /\ IF ~IsZipfile(target)
         THEN /\ result' = Fail(NotAZipMsg)
              /\ pc' = "done"
         ELSE /\ pc' = "mkdtemp"
              /\ UNCHANGED result
    /\ UNCHANGED <<target, ws, shp_files, shp_path, ext_i, gdf, ret, exc, faultAt>>

\* Line 326: with tempfile.TemporaryDirectory() as temp_dir.  mkdtemp can
\* fail (no usable temporary directory, no space), and then no directory is
\* left behind and __exit__ is never run.
EnterWorkspace ==
    /\ pc = "mkdtemp"
    /\ \E fault \in BOOLEAN :
         IF fault
           THEN /\ exc' = Raise("OSError")
                /\ pc' = "except"
                /\ faultAt' = "mkdtemp"
                /\ UNCHANGED ws
           ELSE /\ ws' = [state |-> "live", files |-> EmptyTree]
                /\ pc' = "extract"
                /\ UNCHANGED <<exc, faultAt>>
    /\ UNCHANGED <<target, shp_files, shp_path, ext_i, gdf, ret, result, checks>>

\* The entries of tree t that belong to the datasets in S.
Restrict(t, S) == [b \in Bases |-> IF b \in S THEN t[b] ELSE EmptyTree[b]]

\* Lines 327-332: ZipFile(zip_path, "r").extractall(temp_dir) under
\* except zipfile.BadZipFile.  A failed extraction leaves behind whatever was
\* written before the failure.
ExtractAll ==
    /\ pc = "extract"
    /\ checks' = Append(checks, "extract")
    /\ \E fault \in BOOLEAN :
         LET outcome == IF fault THEN "OSError" ELSE ExtractOutcome(target) IN
         /\ faultAt' = IF fault THEN "extract" ELSE faultAt
         /\ IF outcome = "none"
              THEN /\ ws' = [ws EXCEPT !.files = target.tree]
                   /\ pc' = "rglob"
                   /\ UNCHANGED <<ret, exc>>
              ELSE /\ \E S \in SUBSET Bases :
                        ws' = [ws EXCEPT !.files = Restrict(target.tree, S)]
                   /\ IF Catches(ExtractHandler, outcome)
                        THEN ReturnInWith(Fail(CorruptMsg)) /\ UNCHANGED exc
                        ELSE RaiseInWith(Raise(outcome)) /\ UNCHANGED ret
    /\ UNCHANGED <<target, shp_files, shp_path, ext_i, gdf, result>>

\* Lines 334-341: shp_files = list(Path(temp_dir).rglob("*.shp")); the first
\* path of the listing becomes shp_path.  The order of the listing is the
\* order in which the file system lists directory entries.
LocateShp ==
    /\ pc = "rglob"
    /\ checks' = Append(checks, "locate")
    /\ \E fault \in BOOLEAN :
         IF fault
           THEN /\ RaiseInWith(Raise("OSError"))
                /\ faultAt' = "rglob"
                /\ UNCHANGED <<shp_files, shp_path, ret>>
           ELSE /\ \E q \in Listings(Rglob(ws.files)) :
                     /\ shp_files' = q
                     /\ IF q = <<>>
                          THEN /\ ReturnInWith(Fail(NoShpMsg))
                               /\ UNCHANGED shp_path
                          ELSE /\ shp_path' = q[1]
                               /\ pc' = "components"
                               /\ UNCHANGED ret
                /\ UNCHANGED <<exc, faultAt>>
    /\ UNCHANGED <<target, ws, ext_i, gdf, result>>

\* A loop that notes the first missing component and goes on to the next one.
CheckComponentContinue ==
    /\ pc = "components"
    /\ ext_i <= Len(RequiredExts)
    /\ LET ext == RequiredExts[ext_i]
           missing == ~ExistsInWorkspace(ws.files, BasePath(shp_path), ext)
           noted == IF missing /\ ret = <<>> THEN Fail(MissingMsg(ext)) ELSE ret
       IN
         /\ checks' = Append(checks, ext)
         /\ ext_i' = ext_i + 1
         /\ ret' = noted
         /\ pc' = IF ext_i < Len(RequiredExts) THEN "components"
                  ELSE IF noted # <<>> THEN "exit" ELSE "read"
    /\ UNCHANGED <<target, ws, shp_files, shp_path, gdf, exc, result, faultAt>>

\* Lines 342-344: one iteration of for ext in [".shx", ".dbf"].
CheckComponent ==
    /\ pc = "components"
    /\ ext_i <= Len(RequiredExts)
    /\ LET ext == RequiredExts[ext_i] IN
         /\ checks' = Append(checks, ext)
         /\ IF ~ExistsInWorkspace(ws.files, BasePath(shp_path), ext)
              THEN /\ ReturnInWith(Fail(MissingMsg(ext)))
                   /\ UNCHANGED ext_i
              ELSE /\ ext_i' = ext_i + 1
                   /\ pc' = IF ext_i = Len(RequiredExts) THEN "read" ELSE "components"
                   /\ UNCHANGED ret
    /\ UNCHANGED <<target, ws, shp_files, shp_path, gdf, exc, result, faultAt>>

\* A read that, when the first .shp does not parse, goes back to the component
\* check with the next .shp of the listing.
ReadFileWithFallback ==
    /\ pc = "read"
    /\ checks' = checks
    /\ LET o == target.parse[shp_path[1]]
           rest == {i \in 1..Len(shp_files) : shp_files[i] # shp_path}
       IN
         IF o.err # "none"
           THEN IF rest # {} /\ shp_path = shp_files[1]
                  THEN /\ shp_path' = shp_files[CHOOSE i \in rest : TRUE]
                       /\ ext_i' = 1
                       /\ pc' = "components"
                       /\ UNCHANGED <<gdf, ret, exc>>
                  ELSE /\ ReturnInWith(Fail(ReadErrorMsg(o.err)))
                       /\ UNCHANGED <<shp_path, ext_i, gdf, exc>>
           ELSE /\ gdf' = o.n
                /\ pc' = "len"
                /\ UNCHANGED <<shp_path, ext_i, ret, exc>>
    /\ UNCHANGED <<target, ws, shp_files, result, faultAt>>

\* Lines 346-348, 352-353: gdf = gpd.read_file(shp_path) under
\* except Exception.
ReadFile ==
    /\ pc = "read"
    /\ checks' = Append(checks, "read")
    /\ LET o == target.parse[shp_path[1]] IN
         IF o.err # "none"
           THEN /\ IF Catches(ReadHandler, "ReadError")
                     THEN ReturnInWith(Fail(ReadErrorMsg(o.err))) /\ UNCHANGED exc
                     ELSE RaiseInWith([cls |-> "ReadError", msg |-> o.err])
                            /\ UNCHANGED ret
                /\ UNCHANGED gdf
           ELSE /\ gdf' = o.n
                /\ pc' = "len"
                /\ UNCHANGED <<ret, exc>>
    /\ UNCHANGED <<target, ws, shp_files, shp_path, ext_i, result, faultAt>>

\* An emptiness test that no frame satisfies.
IsEmptyNever(n) == n < 0

\* len(gdf) == 0
IsEmpty(n) == n = 0

\* Lines 349-351: if len(gdf) == 0: return False, ...; return True, None
CountFeatures ==
    /\ pc = "len"
    /\ checks' = Append(checks, "count")
    /\ IF IsEmpty(gdf)
         THEN ReturnInWith(Fail(EmptyMsg))
         ELSE ReturnInWith(Ok)
    /\ UNCHANGED <<target, ws, shp_files, shp_path, ext_i, gdf, exc, result, faultAt>>

\* A removal that only works on an empty directory (os.rmdir).
RemoveTreeNotRecursive(w) ==
    IF w.files = EmptyTree THEN [state |-> "removed", files |-> EmptyTree] ELSE w

\* TemporaryDirectory.cleanup(): the directory and everything below it go.
RemoveTree(w) == [state |-> "removed", files |-> EmptyTree]

\* Leaving the with block (line 326): TemporaryDirectory.__exit__ removes the
\* directory tree.  When the removal itself raises, that exception leaves
\* the block in place of the pending return value or exception and the
\* directory stays.
ExitWorkspace ==
    /\ pc = "exit"
    /\ \E fault \in BOOLEAN :
         IF fault
           THEN /\ exc' = Raise("OSError")
                /\ ret' = <<>>
                /\ pc' = "except"
                /\ faultAt' = "cleanup"
                /\ UNCHANGED <<ws, result>>
           ELSE /\ ws' = RemoveTree(ws)
                /\ IF ret # <<>>
                     THEN /\ result' = ret
                          /\ pc' = "done"
                     ELSE /\ pc' = "except"
                          /\ UNCHANGED result
                /\ UNCHANGED <<ret, exc, faultAt>>
    /\ UNCHANGED <<target, shp_files, shp_path, ext_i, gdf, checks>>

\* Lines 355-356: except Exception as e: return False, f"Unexpected error: ..."
HandleOuter ==
    /\ pc = "except"
    /\ IF Catches(OuterHandler, exc.cls)
         THEN /\ result' = Fail(UnexpectedMsg(exc.msg))
              /\ pc' = "done"
         ELSE /\ pc' = "raised"
              /\ UNCHANGED result
    /\ UNCHANGED <<target, ws, shp_files, shp_path, ext_i, gdf, ret, exc, checks,
                   faultAt>>

(***************************************************************************)
(* Several calls over one file system.                                     *)
(*                                                                         *)
(* The same steps as above, for call i of calls, with the workspace held   *)
(* in the shared temporary directory tmproot under the name mkdtemp gave   *)
(* it and the targets held on disk under their paths.  A directory of      *)
(* tmproot holds entries and, per dataset, what the reader makes of the    *)
(* bytes that were written there.                                          *)
(***************************************************************************)
CallIds == {1, 2}

DirNames == {"tmpa", "tmpb", "tmpc"}

NoDir == [present |-> FALSE, files |-> EmptyTree, parse |-> [b \in Bases |-> NoParse]]

NewDir == [NoDir EXCEPT !.present = TRUE]

\* The locals of a call that has not started.
NewCall(p) ==
    [zip_path |-> p, pc |-> "exists", temp_dir |-> "none", shp_files |-> <<>>,
     shp_path |-> <<>>, ext_i |-> 1, gdf |-> -1, ret |-> <<>>, exc |-> NoExc,
     result |-> <<>>, faultAt |-> "none"]

\* No calls: the state of these variables while a single call is studied.
CallsOff ==
    /\ disk = [p \in Paths |-> NoObject(p, TRUE)]
    /\ tmproot = [d \in DirNames |-> NoDir]
    /\ calls = [i \in CallIds |-> [NewCall("a.zip") EXCEPT !.pc = "off"]]

\* A single call: the state of its variables while several calls are studied.
SingleOff ==
    /\ target = NoObject("a.zip", TRUE)
    /\ pc = "off"
    /\ ws = [state |-> "none", files |-> EmptyTree]
    /\ shp_files = <<>>
    /\ shp_path = <<>>
    /\ ext_i = 1
    /\ gdf = -1
    /\ ret = <<>>
    /\ exc = NoExc
    /\ result = <<>>
    /\ checks = <<>>
    /\ faultAt = "none"

\* A directory name that is always the same (a fixed scratch directory made
\* with exist_ok=True).
MkdtempFixedName(root) == {"tmpa"}

\* tempfile.mkdtemp(): a name under which nothing exists.
Mkdtemp(root) == {d \in DirNames : ~root[d].present}

\* An archive opened for writing is truncated.
ZipFileOpenTruncates(d, p) == [d EXCEPT ![p] = NotArchive(p, TRUE)]

\* zipfile.ZipFile(zip_path, "r") leaves the object at zip_path as it is.
ZipFileOpen(d, p) == d

\* extractall(temp_dir): the entries of the archive are written over what the
\* directory holds; S are the datasets written (all of them on success).
Extracted(dir, t, S) ==
    [dir EXCEPT
       !.files = [b \in Bases |-> [e \in Exts |->
                     IF b \in S /\ t.tree[b][e] # "absent"
                       THEN t.tree[b][e] ELSE dir.files[b][e]]],
       !.parse = [b \in Bases |->
                     IF b \in S /\ t.tree[b][".shp"] # "absent"
                       THEN t.parse[b] ELSE dir.parse[b]]]

\* The directory the call works in, as the file system holds it now.
Workspace(c) == IF c.temp_dir = "none" THEN NoDir ELSE tmproot[c.temp_dir]

SetCall(i, c) == calls' = [calls EXCEPT ![i] = c]

\* return inside the with block, and an exception leaving it.
CReturnInWith(c, v) == [c EXCEPT !.ret = v, !.pc = "exit"]

CRaiseInWith(c, e) == [c EXCEPT !.exc = e, !.pc = "exit"]

\* Lines 317-319.
CCheckExists(i) ==
    LET c == calls[i] IN
    /\ c.pc = "exists"
    /\ SetCall(i, IF ~OsPathExists(disk[c.zip_path])
                    THEN [c EXCEPT !.result = Fail(NotFoundMsg(c.zip_path)), !.pc = "done"]
                    ELSE [c EXCEPT !.pc = "is_zipfile"])
    /\ UNCHANGED <<disk, tmproot>>

\* Lines 321-323.
CCheckIsZip(i) ==
    LET c == calls[i] IN
    /\ c.pc = "is_zipfile"
    /\ SetCall(i, IF ~IsZipfile(disk[c.zip_path])
                    THEN [c EXCEPT !.result = Fail(NotAZipMsg), !.pc = "done"]
                    ELSE [c EXCEPT !.pc = "mkdtemp"])
    /\ UNCHANGED <<disk, tmproot>>

\* Line 326: mkdtemp creates the directory under a name nothing exists under,
\* and raises when it finds no such name.
CEnterWorkspace(i) ==
    LET c == calls[i] IN
    /\ c.pc = "mkdtemp"
    /\ IF Mkdtemp(tmproot) = {}
         THEN /\ SetCall(i, [c EXCEPT !.exc = Raise("OSError"), !.pc = "except",
                                      !.faultAt = "mkdtemp"])
              /\ UNCHANGED tmproot
         ELSE \E d \in Mkdtemp(tmproot) :
                /\ tmproot' = [tmproot EXCEPT ![d] =
                                  IF tmproot[d].present THEN tmproot[d] ELSE NewDir]
                /\ SetCall(i, [c EXCEPT !.temp_dir = d, !.pc = "extract"])
    /\ UNCHANGED disk

\* Lines 327-332.
CExtractAll(i) ==
    LET c == calls[i]
        outcome == ExtractOutcome(disk[c.zip_path])
    IN
    /\ c.pc = "extract"
    /\ disk' = ZipFileOpen(disk, c.zip_path)
    /\ IF outcome = "none"
         THEN /\ tmproot' = [tmproot EXCEPT ![c.temp_dir] =
                               IF tmproot[c.temp_dir].present
                                 THEN Extracted(tmproot[c.temp_dir], disk[c.zip_path], Bases)
                                 ELSE tmproot[c.temp_dir]]
              /\ SetCall(i, IF tmproot[c.temp_dir].present
                              THEN [c EXCEPT !.pc = "rglob"]
                              ELSE CRaiseInWith(c, Raise("OSError")))
         ELSE /\ \E S \in SUBSET Bases :
                   tmproot' = [tmproot EXCEPT ![c.temp_dir] =
                                 IF tmproot[c.temp_dir].present
                                   THEN Extracted(tmproot[c.temp_dir], disk[c.zip_path], S)
                                   ELSE tmproot[c.temp_dir]]
              /\ SetCall(i, IF Catches(ExtractHandler, outcome)
                              THEN CReturnInWith(c, Fail(CorruptMsg))
                              ELSE CRaiseInWith(c, Raise(outcome)))

\* Lines 334-341.
CLocateShp(i) ==
    LET c == calls[i] IN
    /\ c.pc = "rglob"
    /\ \E q \in Listings(Rglob(Workspace(c).files)) :
         SetCall(i, IF q = <<>>
                      THEN CReturnInWith([c EXCEPT !.shp_files = q], Fail(NoShpMsg))
                      ELSE [c EXCEPT !.shp_files = q, !.shp_path = q[1],
                                     !.pc = "components"])
    /\ UNCHANGED <<disk, tmproot>>

\* Lines 342-344.
CCheckComponent(i) ==
    LET c == calls[i]
        ext == RequiredExts[c.ext_i]
    IN
    /\ c.pc = "components"
    /\ c.ext_i <= Len(RequiredExts)
    /\ SetCall(i, IF ~ExistsInWorkspace(Workspace(c).files, BasePath(c.shp_path), ext)
                    THEN CReturnInWith(c, Fail(MissingMsg(ext)))
                    ELSE [c EXCEPT !.ext_i = c.ext_i + 1,
                                   !.pc = IF c.ext_i = Len(RequiredExts)
                                            THEN "read" ELSE "components"])
    /\ UNCHANGED <<disk, tmproot>>

\* What gpd.read_file makes of the file at path p of directory dir: an error
\* when the file is not there.
ReadOutcome(dir, p) ==
    IF dir.files[p[1]][p[2]] = "absent"
      THEN [err |-> "Unable to open .shx", n |-> 0]
      ELSE dir.parse[p[1]]

\* Lines 346-348, 352-353.
CReadFile(i) ==
    LET c == calls[i]
        o == ReadOutcome(Workspace(c), c.shp_path)
    IN
    /\ c.pc = "read"
    /\ SetCall(i, IF o.err # "none"
                    THEN IF Catches(ReadHandler, "ReadError")
                           THEN CReturnInWith(c, Fail(ReadErrorMsg(o.err)))
                           ELSE CRaiseInWith(c, [cls |-> "ReadError", msg |-> o.err])
                    ELSE [c EXCEPT !.gdf = o.n, !.pc = "len"])
    /\ UNCHANGED <<disk, tmproot>>

\* Lines 349-351.
CCountFeatures(i) ==
    LET c == calls[i] IN
    /\ c.pc = "len"
    /\ SetCall(i, IF IsEmpty(c.gdf)
                    THEN CReturnInWith(c, Fail(EmptyMsg))
                    ELSE CReturnInWith(c, Ok))
    /\ UNCHANGED <<disk, tmproot>>

\* Leaving the with block: the directory tree under temp_dir is removed,
\* unless the removal fails.
CExitWorkspace(i) ==
    LET c == calls[i] IN
    /\ c.pc = "exit"
    /\ \E fault \in BOOLEAN :
         IF fault /\ tmproot[c.temp_dir].present
           THEN /\ SetCall(i, [c EXCEPT !.exc = Raise("OSError"), !.ret = <<>>,
                                        !.pc = "except", !.faultAt = "cleanup"])
                /\ UNCHANGED tmproot
           ELSE /\ tmproot' = [tmproot EXCEPT ![c.temp_dir] = NoDir]
                /\ SetCall(i, IF c.ret # <<>>
                                THEN [c EXCEPT !.result = c.ret, !.pc = "done"]
                                ELSE [c EXCEPT !.pc = "except"])
    /\ UNCHANGED disk

\* Lines 355-356.
CHandleOuter(i) ==
    LET c == calls[i] IN
    /\ c.pc = "except"
    /\ SetCall(i, IF Catches(OuterHandler, c.exc.cls)
                    THEN [c EXCEPT !.result = Fail(UnexpectedMsg(c.exc.msg)),
                                   !.pc = "done"]
                    ELSE [c EXCEPT !.pc = "raised"])
    /\ UNCHANGED <<disk, tmproot>>

\* The window not built: the state of its variables while calls are studied.
GuiOff ==
    /\ files = <<>>
    /\ file_list = <<>>
    /\ file_count = <<0, "files">>
    /\ validate_btn = "off"
    /\ browse_btn = "off"
    /\ status_text = ""
    /\ progress = [done |-> 0, of |-> 1]
    /\ workers = <<>>
    /\ afterq = <<>>

\* The path each of the concurrent calls is given: independent archives.
PathOf == [i \in CallIds |-> IF i = 1 THEN "a.zip" ELSE "dir/b.zip"]

FullTree == [b \in Bases |-> [e \in Exts |-> "file"]]

\* The trees and read outcomes the targets of several calls are drawn from.
SmallTrees ==
    {t \in Trees :
        /\ \A b \in Bases, e \in Exts : t[b][e] # "dir"
        /\ t["sub/lines"] \in {EmptyTree["sub/lines"], FullTree["sub/lines"]}}

SmallParses ==
    {o \in ParseOutcomes :
        o.n \in {0, MaxFeatures} /\ o.err \in {"none", "Failed to read all values"}}

SmallTargets(p) ==
    {NoObject(p, TRUE)}
        \cup {NotArchive(p, r) : r \in BOOLEAN}
        \cup {Defective(p, d, FullTree) : d \in Defects \ {"none"}}
        \cup {Sound(p, tp[1], tp[2]) :
                tp \in {x \in SmallTrees \X [Bases -> SmallParses] :
                          \A b \in Bases : x[2][b] \in ParseChoices(x[1], b)}}

\* A directory some other program left in the temporary directory.
ForeignDir ==
    [present |-> TRUE, files |-> FullTree,
     parse |-> [b \in Bases |-> [err |-> "none", n |-> 1]]]

\* The targets of concurrent calls: of the sound archives, those whose first
\* dataset is absent, a lone .shp, a .shp with its .shx, or complete, and
\* whose second dataset is absent or complete with features.
ConcTargets(p) ==
    {x \in SmallTargets(p) :
        \/ x.defect # "none"
        \/ /\ x.tree["sub/points"][".shx"] = "file" => x.tree["sub/points"][".shp"] = "file"
           /\ x.tree["sub/points"][".dbf"] = "file" => x.tree["sub/points"][".shx"] = "file"
           /\ x.tree["sub/lines"][".shp"] = "file" =>
                 x.parse["sub/lines"] = [err |-> "none", n |-> MaxFeatures]}

\* Two calls on two independent archives, started together, next to a
\* foreign directory in the temporary directory.
InitConc ==
    /\ SingleOff
    /\ GuiOff
    /\ \E x \in ConcTargets("a.zip"), y \in ConcTargets("dir/b.zip") :
         disk = [p \in Paths |-> IF p = "a.zip" THEN x ELSE y]
    /\ tmproot = [d \in DirNames |-> IF d = "tmpc" THEN ForeignDir ELSE NoDir]
    /\ calls = [i \in CallIds |-> NewCall(PathOf[i])]

\* Two calls on the same path, the second started once the first has ended.
InitTwice ==
    /\ SingleOff
    /\ GuiOff
    /\ \E x \in SmallTargets("a.zip") :
         disk = [p \in Paths |-> IF p = "a.zip" THEN x ELSE NoObject(p, TRUE)]
    /\ tmproot = [d \in DirNames |-> NoDir]
    /\ calls = [i \in CallIds |-> NewCall("a.zip")]

Ended(i) == calls[i].pc \in {"done", "raised"}

Turn(i) == \A j \in CallIds : j < i => Ended(j)

Next ==
    \/ CheckExists /\ UNCHANGED <<callVars, guiVars>>
    \/ CheckIsZip /\ UNCHANGED <<callVars, guiVars>>
    \/ EnterWorkspace /\ UNCHANGED <<callVars, guiVars>>
    \/ ExtractAll /\ UNCHANGED <<callVars, guiVars>>
    \/ LocateShp /\ UNCHANGED <<callVars, guiVars>>
    \/ CheckComponent /\ UNCHANGED <<callVars, guiVars>>
    \/ ReadFile /\ UNCHANGED <<callVars, guiVars>>
    \/ CountFeatures /\ UNCHANGED <<callVars, guiVars>>
    \/ ExitWorkspace /\ UNCHANGED <<callVars, guiVars>>
    \/ HandleOuter /\ UNCHANGED <<callVars, guiVars>>

NextConc ==
    \/ \E i \in CallIds : CCheckExists(i) /\ UNCHANGED <<vars, guiVars>>
    \/ \E i \in CallIds : CCheckIsZip(i) /\ UNCHANGED <<vars, guiVars>>
    \/ \E i \in CallIds : CEnterWorkspace(i) /\ UNCHANGED <<vars, guiVars>>
    \/ \E i \in CallIds : CExtractAll(i) /\ UNCHANGED <<vars, guiVars>>
    \/ \E i \in CallIds : CLocateShp(i) /\ UNCHANGED <<vars, guiVars>>
    \/ \E i \in CallIds : CCheckComponent(i) /\ UNCHANGED <<vars, guiVars>>
    \/ \E i \in CallIds : CReadFile(i) /\ UNCHANGED <<vars, guiVars>>
    \/ \E i \in CallIds : CCountFeatures(i) /\ UNCHANGED <<vars, guiVars>>
    \/ \E i \in CallIds : CExitWorkspace(i) /\ UNCHANGED <<vars, guiVars>>
    \/ \E i \in CallIds : CHandleOuter(i) /\ UNCHANGED <<vars, guiVars>>

NextTwice ==
    \/ \E i \in CallIds : Turn(i) /\ CCheckExists(i) /\ UNCHANGED <<vars, guiVars>>
    \/ \E i \in CallIds : Turn(i) /\ CCheckIsZip(i) /\ UNCHANGED <<vars, guiVars>>
    \/ \E i \in CallIds : Turn(i) /\ CEnterWorkspace(i) /\ UNCHANGED <<vars, guiVars>>
    \/ \E i \in CallIds : Turn(i) /\ CExtractAll(i) /\ UNCHANGED <<vars, guiVars>>
    \/ \E i \in CallIds : Turn(i) /\ CLocateShp(i) /\ UNCHANGED <<vars, guiVars>>
    \/ \E i \in CallIds : Turn(i) /\ CCheckComponent(i) /\ UNCHANGED <<vars, guiVars>>
    \/ \E i \in CallIds : Turn(i) /\ CReadFile(i) /\ UNCHANGED <<vars, guiVars>>
    \/ \E i \in CallIds : Turn(i) /\ CCountFeatures(i) /\ UNCHANGED <<vars, guiVars>>
    \/ \E i \in CallIds : Turn(i) /\ CExitWorkspace(i) /\ UNCHANGED <<vars, guiVars>>
    \/ \E i \in CallIds : Turn(i) /\ CHandleOuter(i) /\ UNCHANGED <<vars, guiVars>>

allvars == <<vars, callVars, guiVars>>

\* The state when a single call starts: no other call, no window.
InitCall == Init /\ CallsOff /\ GuiOff

\* One call.
Spec == InitCall /\ [][Next]_allvars

\* Two calls on independent archives under every interleaving of their steps.
SpecConc == InitConc /\ [][NextConc]_allvars

\* The same archive validated twice, one call after the other.
SpecTwice == InitTwice /\ [][NextTwice]_allvars

(***************************************************************************)
(* Vocabulary of the properties.                                           *)
(***************************************************************************)
\* The call has returned.
Returned == result # <<>>

\* The checks of the pipeline, in the order the specification gives them.
CheckOrder == <<"exists", "zip", "extract", "locate", ".shx", ".dbf", "read", "count">>

IsPrefix(s, t) == Len(s) <= Len(t) /\ \A i \in 1..Len(s) : s[i] = t[i]

Last(s) == s[Len(s)]

\* The dataset the call selected.
Selected == shp_path[1]

\* Check c succeeds on the target (for the dataset checks: on the selected
\* dataset) in this run.
Passes(c) ==
    CASE c = "exists"  -> target.isPath /\ target.exists
      [] c = "zip"     -> target.readable /\ target.endrec
      [] c = "extract" -> target.defect = "none" /\ faultAt # "extract"
      [] c = "locate"  -> (\E b \in Bases : target.tree[b][".shp"] # "absent")
                            /\ faultAt # "rglob"
      [] c = ".shx"    -> target.tree[Selected][".shx"] # "absent"
      [] c = ".dbf"    -> target.tree[Selected][".dbf"] # "absent"
      [] c = "read"    -> target.parse[Selected].err = "none"
      [] c = "count"   -> target.parse[Selected].n > 0

\* The check a verdict reports as failed.
ReportedCheck(v) ==
    CASE v = Fail(NotFoundMsg(target.path)) -> "exists"
      [] v = Fail(NotAZipMsg)               -> "zip"
      [] v = Fail(CorruptMsg)               -> "extract"
      [] v = Fail(NoShpMsg)                 -> "locate"
      [] v = Fail(MissingMsg(".shx"))       -> ".shx"
      [] v = Fail(MissingMsg(".dbf"))       -> ".dbf"
      [] v = Fail(EmptyMsg)                 -> "count"
      [] \E m \in ParserMsgs : v = Fail(ReadErrorMsg(m)) -> "read"
      [] OTHER                              -> "other"

\* The verdicts the call's return statements can build.
Verdicts ==
    {Ok, Fail(NotAZipMsg), Fail(CorruptMsg), Fail(NoShpMsg), Fail(EmptyMsg)}
        \cup {Fail(NotFoundMsg(p)) : p \in Paths}
        \cup {Fail(MissingMsg(e)) : e \in Exts}
        \cup {Fail(ReadErrorMsg(m)) : m \in ParserMsgs}
        \cup {Fail(UnexpectedMsg(ExcText(c))) :
                c \in {"TypeError", "OSError", "BadZipFile", "zlib.error", "RuntimeError"}}

(***************************************************************************)
(* C1.  The checks run in the fixed order existence, zip format,           *)
(* extraction, geometry location, .shx, .dbf, read, feature count; every   *)
(* check executed before the last one passed, so nothing runs after a      *)
(* failed check; a failure verdict reports the last check executed, which  *)
(* failed; a valid verdict comes after all eight; and a verdict of the     *)
(* archive stage is reached with no dataset check executed.                *)
(***************************************************************************)
C1_ChecksInOrder ==
    /\ IsPrefix(checks, CheckOrder)
    /\ \A i \in 1..(Len(checks) - 1) : Passes(checks[i])
    /\ \A v \in {ret, result} \ {<<>>} :
         IF v = Ok
           THEN checks = CheckOrder /\ Passes("count")
           ELSE ReportedCheck(v) # "other" =>
                  /\ Last(checks) = ReportedCheck(v)
                  /\ ~Passes(Last(checks))
                  /\ (ReportedCheck(v) \in {"exists", "zip", "extract"} =>
                        \A i \in 1..Len(checks) :
                           checks[i] \notin {"locate", ".shx", ".dbf", "read", "count"})

\* The .dbf check failed after five checks that passed.
C1_Witness ==
    /\ result = Fail(MissingMsg(".dbf"))
    /\ checks = SubSeq(CheckOrder, 1, 6)

(***************************************************************************)
(* C2.  Provided no library call fails for a reason outside the target,    *)
(* the verdict is valid exactly when the target exists, is a zip           *)
(* container, extracts, a .shp entry is found, the .shx and .dbf siblings  *)
(* of the selected .shp exist, the read succeeds and yields at least one   *)
(* feature; with such a failure the verdict is invalid.                    *)
(***************************************************************************)
AllHold ==
    /\ target.isPath /\ target.exists
    /\ target.readable /\ target.endrec
    /\ target.defect = "none"
    /\ shp_path # <<>>
    /\ target.tree[Selected][".shp"] # "absent"
    /\ target.tree[Selected][".shx"] # "absent"
    /\ target.tree[Selected][".dbf"] # "absent"
    /\ target.parse[Selected].err = "none"
    /\ target.parse[Selected].n >= 1

C2_ValidExactlyWhen ==
    Returned => (result[1] <=> (AllHold /\ faultAt = "none"))

\* A complete dataset with features was reported valid.
C2_Witness ==
    /\ result = Ok
    /\ target.parse[Selected].n = MaxFeatures

(***************************************************************************)
(* C3.  When the call has returned through any exit other than a failed    *)
(* removal, the workspace the call created and everything extracted into   *)
(* it are gone.                                                            *)
(***************************************************************************)
C3_WorkspaceRemoved ==
    (Returned /\ faultAt # "cleanup") =>
        /\ ws.state \in {"none", "removed"}
        /\ ws.files = EmptyTree

\* The call extracted entries, the search raised, and the workspace is gone.
C3_Witness ==
    /\ Returned
    /\ faultAt = "rglob"
    /\ target.tree # EmptyTree
    /\ ws.state = "removed"

(***************************************************************************)
(* C4.  No exception leaves the call: every step has a successor until the *)
(* call has returned, a finished call holds a verdict of the form          *)
(* (bool, message), and the call never ends by raising.                    *)
(***************************************************************************)
C4_AlwaysAVerdict ==
    /\ pc # "raised"
    /\ pc = "done" <=> Returned
    /\ Returned => result \in Verdicts
    /\ pc # "done" => ENABLED Next

\* The removal of the workspace failed and the call still returned a verdict.
C4_Witness ==
    /\ Returned
    /\ faultAt = "cleanup"
    /\ result = Fail(UnexpectedMsg(ExcText("OSError")))

(***************************************************************************)
(* C5.  A target that passes the zip-container check and whose extraction  *)
(* fails on the archive's own structure gets the verdict 'Corrupt zip file *)
(* - cannot extract contents'.                                             *)
(***************************************************************************)
StructuralExtractionFailure ==
    /\ target.isPath /\ target.exists /\ target.readable /\ target.endrec
    /\ target.defect # "none"

C5_StructuralFailureIsCorrupt ==
    (Returned /\ StructuralExtractionFailure /\ faultAt = "none") =>
        result = Fail(CorruptMsg)

(***************************************************************************)
(* C6.  As claimed: a target that does not exist, and a target that exists *)
(* but cannot be read, both get 'File not found: <path>'.                  *)
(***************************************************************************)
C6_UnreadableIsNotFound ==
    (Returned /\ target.isPath /\ (~target.exists \/ ~target.readable)) =>
        result = Fail(NotFoundMsg(target.path))

(***************************************************************************)
(* C6, amended.  A target that does not exist gets 'File not found:        *)
(* <path>'; a target that exists but cannot be read gets 'File is not a    *)
(* valid zip archive'.                                                     *)
(***************************************************************************)
C6_NotFoundOnlyWhenAbsent ==
    (Returned /\ target.isPath) =>
        /\ ~target.exists => result = Fail(NotFoundMsg(target.path))
        /\ (target.exists /\ ~target.readable) => result = Fail(NotAZipMsg)

\* An existing, unreadable target was reported as not being a zip archive.
C6_Witness ==
    /\ target.exists /\ ~target.readable
    /\ result = Fail(NotAZipMsg)

(***************************************************************************)
(* C7.  A path whose target is not a zip container (it does not exist,     *)
(* cannot be opened, or holds no end record) never reaches extraction: no  *)
(* workspace is created for it, and its verdict is 'File not found' or     *)
(* 'File is not a valid zip archive', hence never 'Corrupt zip file'.      *)
(***************************************************************************)
NotAZipContainer ==
    target.isPath /\ ~(target.exists /\ target.readable /\ target.endrec)

C7_NonZipNeverExtracted ==
    NotAZipContainer =>
        /\ \A i \in 1..Len(checks) : checks[i] # "extract"
        /\ ws.state = "none"
        /\ pc \in {"exists", "is_zipfile", "done"}
        /\ Returned => result \in {Fail(NotFoundMsg(target.path)), Fail(NotAZipMsg)}

\* A readable file without an end record was rejected as not a zip.
C7_Witness ==
    /\ target.readable /\ ~target.endrec
    /\ result = Fail(NotAZipMsg)

(***************************************************************************)
(* C8.  When the selected .shp has no .shx sibling the verdict names       *)
(* '.shx' and nothing else, whether or not the .dbf sibling is missing     *)
(* too; '.dbf' is named exactly when the .shx sibling is present and the   *)
(* .dbf sibling is absent.  (A verdict is compared with the exact message  *)
(* for one extension, so a message naming two would not match.)            *)
(***************************************************************************)
C8_ShxReportedFirst ==
    (Returned /\ shp_path # <<>>) =>
        LET shx == target.tree[Selected][".shx"] # "absent"
            dbf == target.tree[Selected][".dbf"] # "absent"
        IN
          /\ (~shx /\ faultAt = "none") => result = Fail(MissingMsg(".shx"))
          /\ (shx /\ ~dbf /\ faultAt = "none") => result = Fail(MissingMsg(".dbf"))
          /\ result = Fail(MissingMsg(".shx")) => ~shx
          /\ result = Fail(MissingMsg(".dbf")) => (shx /\ ~dbf)
          /\ \A e \in Exts \ {".shx", ".dbf"} : result # Fail(MissingMsg(e))

\* Both siblings are missing and the verdict names .shx.
C8_Witness ==
    /\ result = Fail(MissingMsg(".shx"))
    /\ target.tree[Selected][".shx"] = "absent"
    /\ target.tree[Selected][".dbf"] = "absent"

(***************************************************************************)
(* C9.  For an archive that extracts and holds no .shp entry, the          *)
(* component checks and the read are never executed and the verdict is     *)
(* 'No .shp file found in zip archive'.                                    *)
(***************************************************************************)
SoundWithoutShp ==
    /\ target.isPath /\ target.exists /\ target.readable /\ target.endrec
    /\ target.defect = "none"
    /\ \A b \in Bases : target.tree[b][".shp"] = "absent"

C9_NoGeometryFile ==
    SoundWithoutShp =>
        /\ \A i \in 1..Len(checks) : checks[i] \notin {".shx", ".dbf", "read", "count"}
        /\ gdf = -1
        /\ (Returned /\ faultAt = "none") => result = Fail(NoShpMsg)

\* An archive holding other entries, but no .shp, was reported as such.
C9_Witness ==
    /\ result = Fail(NoShpMsg)
    /\ target.tree # EmptyTree
    /\ checks = SubSeq(CheckOrder, 1, 4)

(***************************************************************************)
(* C10.  When the selected dataset has both siblings and reads without     *)
(* error into zero features, the verdict is 'Shapefile contains no         *)
(* features': not a read error and not valid.                              *)
(***************************************************************************)
ParsesEmpty ==
    /\ shp_path # <<>>
    /\ target.tree[Selected][".shx"] # "absent"
    /\ target.tree[Selected][".dbf"] # "absent"
    /\ target.parse[Selected].err = "none"
    /\ target.parse[Selected].n = 0

C10_EmptyDataset ==
    /\ (Returned /\ ParsesEmpty /\ faultAt = "none") => result = Fail(EmptyMsg)
    /\ result = Fail(EmptyMsg) => ParsesEmpty

\* A dataset that read into zero features was reported empty after all checks.
C10_Witness ==
    /\ result = Fail(EmptyMsg)
    /\ checks = CheckOrder
    /\ gdf = 0

(***************************************************************************)
(* C11.  When the selected dataset has both siblings and the read raises,  *)
(* the verdict is 'Error reading shapefile: ' followed by the reader's     *)
(* message as it is: not valid, not 'no features', not 'Unexpected error'. *)
(***************************************************************************)
ReadRaises ==
    /\ shp_path # <<>>
    /\ target.tree[Selected][".shx"] # "absent"
    /\ target.tree[Selected][".dbf"] # "absent"
    /\ target.parse[Selected].err # "none"

C11_UnreadableDataset ==
    /\ (Returned /\ ReadRaises /\ faultAt = "none") =>
          result = Fail(ReadErrorMsg(target.parse[Selected].err))
    /\ \A m \in ParserMsgs :
          result = Fail(ReadErrorMsg(m)) => (ReadRaises /\ target.parse[Selected].err = m)

\* A read error was reported with the second of the reader's messages.
C11_Witness ==
    /\ result = Fail(ReadErrorMsg("Failed to read all values"))
    /\ target.parse[Selected].err = "Failed to read all values"
    /\ checks = SubSeq(CheckOrder, 1, 7)

(***************************************************************************)
(* C12.  A verdict is either (True, None) or (False, m) with m one         *)
(* non-empty message for one cause: the pending and the returned value are *)
(* never (True, message) nor (False, None), and the message is exactly one *)
(* of the single-cause messages of the call.                               *)
(***************************************************************************)
SingleCauseMsgs ==
    {NotAZipMsg, CorruptMsg, NoShpMsg, EmptyMsg}
        \cup {NotFoundMsg(p) : p \in Paths}
        \cup {MissingMsg(e) : e \in {".shx", ".dbf"}}
        \cup {ReadErrorMsg(m) : m \in ParserMsgs}
        \cup {UnexpectedMsg(ExcText(c)) :
                c \in {"TypeError", "OSError", "zlib.error", "RuntimeError"}}

C12_VerdictShape ==
    \A v \in {ret, result} \ {<<>>} :
        /\ Len(v) = 2
        /\ v[1] \in BOOLEAN
        /\ v[1] => v[2] = None
        /\ ~v[1] => /\ v[2] # None
                    /\ Len(v[2]) = 1
                    /\ v[2][1] # ""
                    /\ v[2][1] \in SingleCauseMsgs

\* A failure verdict with its message, reached after a failed cleanup replaced
\* the value that was about to be returned.
C12_Witness ==
    /\ Returned
    /\ result[1] = FALSE
    /\ result[2] = Some(UnexpectedMsg(ExcText("OSError")))
    /\ faultAt = "cleanup"
    /\ gdf > 0

(***************************************************************************)
(* C15.  The call only moves forward through its stages and never goes     *)
(* back: the position never decreases, the selected .shp is the first of   *)
(* the listing and never changes, the frame read is that of the first      *)
(* .shp, and when the first .shp fails the component check, the read or    *)
(* the feature count the verdict is invalid whatever else the archive      *)
(* holds.                                                                  *)
(***************************************************************************)
Rank(p) ==
    CASE p = "exists"     -> 0
      [] p = "is_zipfile" -> 1
      [] p = "mkdtemp"    -> 2
      [] p = "extract"    -> 3
      [] p = "rglob"      -> 4
      [] p = "components" -> 5
      [] p = "read"       -> 6
      [] p = "len"        -> 7
      [] p = "exit"       -> 8
      [] p = "except"     -> 9
      [] p = "done"       -> 10
      [] OTHER            -> 11

\* Dataset b is complete, readable and not empty.
GoodDataset(b) ==
    /\ target.tree[b][".shp"] = "file"
    /\ target.tree[b][".shx"] = "file"
    /\ target.tree[b][".dbf"] = "file"
    /\ target.parse[b].err = "none"
    /\ target.parse[b].n >= 1

SelectedFails ==
    \/ target.tree[Selected][".shx"] = "absent"
    \/ target.tree[Selected][".dbf"] = "absent"
    \/ target.parse[Selected].err # "none"
    \/ target.parse[Selected].n = 0

C15_NoBacktracking ==
    /\ [][/\ Rank(pc') > Rank(pc)
            \/ (pc = "components" /\ pc' = "components" /\ ext_i' > ext_i)
          /\ shp_path # <<>> => shp_path' = shp_path
          /\ shp_files # <<>> => shp_files' = shp_files]_allvars
    /\ [](shp_path # <<>> => shp_path = shp_files[1])
    /\ [](gdf >= 0 => gdf = target.parse[shp_files[1][1]].n)
    /\ []((Returned /\ shp_path # <<>> /\ SelectedFails) => ~result[1])

\* The first .shp failed and the verdict is invalid although the archive also
\* holds a complete, readable dataset with features.
C15_Witness ==
    /\ Returned
    /\ ~result[1]
    /\ shp_path # <<>>
    /\ SelectedFails
    /\ \E b \in Bases \ {Selected} : GoodDataset(b)

(***************************************************************************)
(* C13.  Two calls on independent archives, under every interleaving of    *)
(* their steps: each call that returns (no library call having failed for  *)
(* a reason outside its target) returns the verdict the call alone gives   *)
(* for its archive and the listing it saw; calls that are inside their     *)
(* with block hold different directories; and a step changes a directory   *)
(* of the temporary directory only when it is the stepping call's own.     *)
(***************************************************************************)
\* The verdict of a call on target t alone, when the traversal lists q.
AloneVerdict(t, q) ==
    IF ~t.exists THEN Fail(NotFoundMsg(t.path))
    ELSE IF ~(t.readable /\ t.endrec) THEN Fail(NotAZipMsg)
    ELSE IF t.defect = "BadZipFile" THEN Fail(CorruptMsg)
    ELSE IF t.defect # "none" THEN Fail(UnexpectedMsg(ExcText(t.defect)))
    ELSE IF q = <<>> THEN Fail(NoShpMsg)
    ELSE IF t.tree[q[1][1]][".shx"] = "absent" THEN Fail(MissingMsg(".shx"))
    ELSE IF t.tree[q[1][1]][".dbf"] = "absent" THEN Fail(MissingMsg(".dbf"))
    ELSE IF t.parse[q[1][1]].err # "none" THEN Fail(ReadErrorMsg(t.parse[q[1][1]].err))
    ELSE IF t.parse[q[1][1]].n = 0 THEN Fail(EmptyMsg)
    ELSE Ok

\* The single call returns AloneVerdict (an invariant of Spec).
AloneVerdictIsTheSingleCall ==
    pc = "done" /\ faultAt = "none" /\ target.isPath
        => result = AloneVerdict(target, shp_files)

\* Call i is inside its with block.
InWith(i) == calls[i].pc \in {"extract", "rglob", "components", "read", "len", "exit"}

\* The listing a call holds is one the traversal of its archive can give.
SawOwnArchive(i) ==
    LET t == disk[calls[i].zip_path] IN
    IF t.exists /\ t.readable /\ t.endrec /\ t.defect = "none"
      THEN calls[i].shp_files \in Listings(Rglob(t.tree))
      ELSE calls[i].shp_files = <<>>

C13_Isolation ==
    /\ [](\A i \in CallIds :
            calls[i].pc = "done" /\ calls[i].faultAt = "none"
                => /\ SawOwnArchive(i)
                   /\ calls[i].result =
                         AloneVerdict(disk[calls[i].zip_path], calls[i].shp_files))
    /\ [](\A i \in CallIds, j \in CallIds :
            i # j /\ InWith(i) /\ InWith(j) => calls[i].temp_dir # calls[j].temp_dir)
    /\ [][\A d \in DirNames :
            tmproot'[d] # tmproot[d]
                => \E i \in CallIds :
                      /\ calls'[i] # calls[i]
                      /\ d \in {calls[i].temp_dir, calls'[i].temp_dir}
                      /\ \A j \in CallIds \ {i} : ~(InWith(j) /\ calls[j].temp_dir = d)
       ]_allvars

\* Both calls were inside their with blocks at once, and both have returned
\* a verdict of the dataset stage, one of them valid.
C13_Witness ==
    /\ \A i \in CallIds : calls[i].pc = "done" /\ calls[i].faultAt = "none"
    /\ \A i \in CallIds : calls[i].temp_dir # "none"
    /\ calls[1].temp_dir = "tmpb" /\ calls[2].temp_dir = "tmpa"
    /\ calls[1].result = Ok
    /\ calls[2].result = Fail(MissingMsg(".dbf"))

(***************************************************************************)
(* C14.  As claimed: when the same archive is validated twice with nothing *)
(* changed between the calls (no library call failing for a reason outside *)
(* the target), both calls return the same verdict, also for an archive    *)
(* that holds several .shp files.                                          *)
(***************************************************************************)
C14_SameVerdictTwice ==
    (\A i \in CallIds : calls[i].pc = "done" /\ calls[i].faultAt = "none")
        => calls[1].result = calls[2].result

(***************************************************************************)
(* C16.  No step of a call changes an object on disk, its target included, *)
(* whatever the verdict; the directory another program left in the         *)
(* temporary directory stays as it was; and the only directories a step    *)
(* creates, fills or removes are the stepping call's temp_dir.             *)
(***************************************************************************)
C16_FrameEffect ==
    /\ [](tmproot["tmpc"] = ForeignDir)
    /\ [][/\ disk' = disk
          /\ \A d \in DirNames :
                tmproot'[d] # tmproot[d]
                    => \E i \in CallIds : /\ calls'[i] # calls[i]
                                          /\ calls'[i].temp_dir = d
       ]_allvars

\* A call has extracted its archive, returned valid and removed its
\* directory while the other call returned a failure of the archive stage.
C16_Witness ==
    /\ calls[1].pc = "done" /\ calls[1].result = Ok
    /\ calls[1].temp_dir # "none" /\ ~tmproot[calls[1].temp_dir].present
    /\ calls[2].pc = "done" /\ calls[2].result = Fail(CorruptMsg)
    /\ disk["a.zip"].defect = "none" /\ disk["dir/b.zip"].defect = "BadZipFile"

(***************************************************************************)
(* The window of ShapefileValidatorGUI.                                    *)
(*                                                                         *)
(* The handlers of the buttons and the callbacks scheduled with root.after *)
(* run on the thread of the main loop, one at a time; the steps of         *)
(* validate_files run on worker threads and interleave with them.  The     *)
(* window stays open.                                                      *)
(***************************************************************************)
\* Validation runs started.
MaxRuns == 2

\* Entries of self.files, dummies included; a dict of this size is not
\* rebuilt when a key is added.
MaxEntries == 2

\* The files the file dialog offers: an archive, a name in capitals under
\* which nothing exists, and a file of another kind.
Offered == {"a.zip", "dir/C.ZIP", "notes.txt"}

\* What askopenfilenames returns: the files chosen, none on cancel.
Chosen ==
    {<<>>} \cup {<<x>> : x \in Offered}
           \cup {s \in Offered \X Offered : s[1] # s[2]}

\* path.lower()
Lower(path) == IF path = "dir/C.ZIP" THEN "dir/c.zip" ELSE path

\* s.endswith('.zip')
EndsWithZip(s) == s \in {"a.zip", "dir/b.zip", "dir/c.zip"}

\* path.lower().endswith('.zip')
LowerEndsWithZip(path) == EndsWithZip(Lower(path))

\* os.path.basename(file_path)
Basename(file_path) ==
    CASE file_path = "dir/b.zip" -> "b.zip"
      [] file_path = "dir/C.ZIP" -> "C.ZIP"
      [] OTHER                   -> file_path

\* The entry a removed key leaves in the dict.
Dummy == "<dummy>"

\* The keys of the dict, in insertion order.
Keys(d) == SelectSeq(d, LAMBDA k : k # Dummy)

\* len(d)
DictLen(d) == Len(Keys(d))

\* key in d
DictHas(d, k) == \E n \in DOMAIN d : d[n] = k

\* d.pop(k, None)
DictPop(d, k) == [n \in DOMAIN d |-> IF d[n] = k THEN Dummy ELSE d[n]]

\* d[k] = None for a key the dict does not hold.
DictInsert(d, k) == Append(d, k)

\* The stand-ins of the marks U+2713 and U+274C that start a line.
OkMark == "(ok) "

ErrMark == "(x) "

Digits == <<"0", "1", "2", "3", "4", "5", "6", "7", "8", "9">>

\* str(n) of a natural number.
RECURSIVE ToStr(_)
ToStr(n) == IF n < 10 THEN Digits[n + 1] ELSE ToStr(n \div 10) \o Digits[(n % 10) + 1]

\* f"{error_msg}"
StrOpt(m) == IF m = None THEN "None" ELSE m[1]

\* Lines 185-190.
UpdateFileCount(d) ==
    <<DictLen(d), IF DictLen(d) = 1 THEN "file" ELSE "files">>

\* Lines 243-251: the display holds the mark and the message.
UpdateStatus(message, is_error) ==
    IF is_error THEN ErrMark \o message ELSE OkMark \o message

\* The state of a disabled button.
Disabled == "disabled"

\* The locals of validate_files when the thread starts.  History: start is
\* the list of files at the time validate_threaded ran, summary what the
\* run has scheduled for display ("none", "full": a summary with one line
\* for each file of start, "partial": another summary), shown whether the
\* summary has been displayed.
NewWorker(d) ==
    [pc |-> "len", total_files |-> -1, it_used |-> 0, it_len |-> 0,
     it_pos |-> 0, i |-> 0, file_path |-> "", results |-> <<>>,
     exc |-> "none", start |-> Keys(d), summary |-> "none", shown |-> FALSE]

\* A thread that has ended: its locals are gone, the history stays.
EndedWorker(r) ==
    [NewWorker(<<>>) EXCEPT !.pc = "ended", !.exc = r.exc,
                            !.summary = r.summary, !.shown = r.shown]

\* A callback scheduled with root.after(0, fn, arg) by run r.
Callback(fn, message, value, r) ==
    [fn |-> fn, message |-> message, value |-> value, run |-> r]

NoValue == [done |-> 0, of |-> 1]

\* Lines 196-201.
ClearFiles ==
    /\ files' = <<>>
    /\ file_list' = <<>>
    /\ file_count' = UpdateFileCount(files')
    /\ status_text' = UpdateStatus("All files cleared", FALSE)
    /\ UNCHANGED <<validate_btn, browse_btn, progress, workers, afterq>>

\* The elements of a set of indices, largest first: reversed(selected).
RECURSIVE Reversed(_)
Reversed(S) ==
    IF S = {} THEN <<>>
    ELSE LET m == CHOOSE x \in S : \A y \in S : y <= x
         IN <<m>> \o Reversed(S \ {m})

\* file_list.delete(index)
ListDelete(lb, index) ==
    [n \in 1..(Len(lb) - 1) |-> IF n < index THEN lb[n] ELSE lb[n + 1]]

\* Lines 207-210: the loop of remove_selected over the rest of the selection.
RECURSIVE RemoveLoop(_, _, _)
RemoveLoop(d, lb, sel) ==
    IF sel = <<>> THEN <<d, lb>>
    ELSE LET index == Head(sel)
             file_path == lb[index]
         IN RemoveLoop(DictPop(d, file_path), ListDelete(lb, index), Tail(sel))

\* Lines 204-211, for the selection the list has when the button is pressed.
RemoveSelected ==
    \E selected \in SUBSET (1..Len(file_list)) :
        LET r == RemoveLoop(files, file_list, Reversed(selected)) IN
        /\ files' = r[1]
        /\ file_list' = r[2]
        /\ file_count' = UpdateFileCount(files')
        /\ UNCHANGED <<validate_btn, browse_btn, status_text, progress,
                       workers, afterq>>

\* A loop that lists every path it is given.
RECURSIVE AddLoopNoTest(_, _, _)
AddLoopNoTest(d, lb, file_paths) ==
    IF file_paths = <<>> THEN <<d, lb>>
    ELSE AddLoopNoTest(DictInsert(d, Head(file_paths)),
                       Append(lb, Head(file_paths)), Tail(file_paths))

\* Lines 216-219: the loop of add_files over the rest of the paths.
RECURSIVE AddLoop(_, _, _)
AddLoop(d, lb, file_paths) ==
    IF file_paths = <<>> THEN <<d, lb>>
    ELSE LET path == Head(file_paths) IN
         IF LowerEndsWithZip(path) /\ ~DictHas(d, path)
           THEN AddLoop(DictInsert(d, path), Append(lb, path), Tail(file_paths))
           ELSE AddLoop(d, lb, Tail(file_paths))

\* Lines 223-230 and 214-220: the Browse button, when it is enabled.
BrowseFiles ==
    /\ browse_btn = "normal"
    /\ \E filenames \in Chosen :
         LET r == AddLoop(files, file_list, filenames) IN
         /\ Len(r[1]) <= MaxEntries
         /\ files' = r[1]
         /\ file_list' = r[2]
         /\ file_count' = IF filenames = <<>> THEN file_count
                                              ELSE UpdateFileCount(files')
    /\ UNCHANGED <<validate_btn, browse_btn, status_text, progress, workers,
                   afterq>>

\* A handler that starts the thread with the Validate button left enabled.
ValidateThreadedLeavesEnabled ==
    /\ validate_btn = "normal"
    /\ IF DictLen(files) = 0
         THEN /\ status_text' = UpdateStatus("No files selected to validate", TRUE)
              /\ UNCHANGED <<validate_btn, browse_btn, progress, workers>>
         ELSE /\ Len(workers) < MaxRuns
              /\ browse_btn' = Disabled
              /\ status_text' = UpdateStatus("Validating files...", FALSE)
              /\ progress' = NoValue
              /\ workers' = Append(workers, NewWorker(files))
              /\ UNCHANGED validate_btn
    /\ UNCHANGED <<files, file_list, file_count, afterq>>

\* Lines 254-265: the Validate Shapefiles button, when it is enabled.
ValidateThreaded ==
    /\ validate_btn = "normal"
    /\ IF DictLen(files) = 0
         THEN /\ status_text' = UpdateStatus("No files selected to validate", TRUE)
              /\ UNCHANGED <<validate_btn, browse_btn, progress, workers>>
         ELSE /\ Len(workers) < MaxRuns
              /\ validate_btn' = Disabled
              /\ browse_btn' = Disabled
              /\ status_text' = UpdateStatus("Validating files...", FALSE)
              /\ progress' = NoValue
              /\ workers' = Append(workers, NewWorker(files))
    /\ UNCHANGED <<files, file_list, file_count, afterq>>

\* The main loop runs the callback scheduled first.
Dispatch ==
    /\ afterq # <<>>
    /\ LET cb == Head(afterq) IN
       /\ afterq' = Tail(afterq)
       /\ progress' = IF cb.fn = "progress" THEN cb.value ELSE progress
       /\ status_text' = IF cb.fn = "update_status"
                           THEN UpdateStatus(cb.message, FALSE) ELSE status_text
       /\ validate_btn' = IF cb.fn = "validate_btn" THEN "normal" ELSE validate_btn
       /\ browse_btn' = IF cb.fn = "browse_btn" THEN "normal" ELSE browse_btn
       /\ workers' = IF cb.fn = "update_status"
                       THEN [workers EXCEPT ![cb.run].shown = TRUE] ELSE workers
    /\ UNCHANGED <<files, file_list, file_count>>

SetWorker(w, r) == workers' = [workers EXCEPT ![w] = r]

\* Lines 270-272: total_files = len(self.files); 100.0 / total_files raises
\* ZeroDivisionError when it is 0.
WCount(w) ==
    LET r == workers[w]
        n == DictLen(files)
    IN
    /\ r.pc = "len"
    /\ SetWorker(w, IF n = 0
                      THEN [r EXCEPT !.total_files = n, !.exc = "ZeroDivisionError",
                                     !.pc = "finally"]
                      ELSE [r EXCEPT !.total_files = n, !.pc = "iter"])
    /\ UNCHANGED <<files, file_list, file_count, validate_btn, browse_btn,
                   status_text, progress, afterq>>

\* Line 274: enumerate(self.files.keys()) makes the iterator, which keeps
\* the size of the dict, the number of keys left and its position.
WIter(w) ==
    LET r == workers[w] IN
    /\ r.pc = "iter"
    /\ SetWorker(w, [r EXCEPT !.it_used = DictLen(files), !.it_len = DictLen(files),
                              !.it_pos = 0, !.pc = "next"])
    /\ UNCHANGED <<files, file_list, file_count, validate_btn, browse_btn,
                   status_text, progress, afterq>>

\* The position of the first key of d after position pos, 0 when none.
NextKeyPos(d, pos) ==
    IF \E n \in DOMAIN d : n > pos /\ d[n] # Dummy
      THEN CHOOSE n \in DOMAIN d :
              /\ n > pos /\ d[n] # Dummy
              /\ \A k \in DOMAIN d : (k > pos /\ d[k] # Dummy) => n <= k
      ELSE 0

\* Line 274: the next key of the iterator.  A dict whose size is not the
\* one the iterator kept, or which gives more keys than it had, raises
\* RuntimeError; no entry left ends the loop.
WNextItem(w) ==
    LET r == workers[w]
        n == NextKeyPos(files, r.it_pos)
    IN
    /\ r.pc = "next"
    /\ SetWorker(w,
         IF r.it_used # DictLen(files)
           THEN [r EXCEPT !.exc = "RuntimeError", !.pc = "finally"]
         ELSE IF n = 0
           THEN [r EXCEPT !.pc = "report"]
         ELSE IF r.it_len = 0
           THEN [r EXCEPT !.exc = "RuntimeError", !.pc = "finally"]
         ELSE [r EXCEPT !.file_path = files[n], !.it_pos = n,
                        !.it_len = r.it_len - 1, !.pc = "validate"])
    /\ UNCHANGED <<files, file_list, file_count, validate_btn, browse_btn,
                   status_text, progress, afterq>>

\* The verdicts validate_zipped_shapefile can return for the object t.
ValidateZippedShapefile(t) ==
    IF t.exists /\ t.readable /\ t.endrec /\ t.defect = "none"
      THEN {AloneVerdict(t, q) : q \in Listings(Rglob(t.tree))}
      ELSE {AloneVerdict(t, <<>>)}

\* What a listed path names.
Named(path) == IF path \in Paths THEN disk[path] ELSE NoObject(path, TRUE)

\* Lines 275-276.
WValidate(w) ==
    LET r == workers[w] IN
    /\ r.pc = "validate"
    /\ \E v \in ValidateZippedShapefile(Named(r.file_path)) :
         SetWorker(w, [r EXCEPT !.results = Append(r.results, <<r.file_path, v[1], v[2]>>),
                                !.pc = "progress"])
    /\ UNCHANGED <<files, file_list, file_count, validate_btn, browse_btn,
                   status_text, progress, afterq>>

\* Line 279.
WProgress(w) ==
    LET r == workers[w] IN
    /\ r.pc = "progress"
    /\ afterq' = Append(afterq,
                   Callback("progress", "", [done |-> r.i + 1, of |-> r.total_files], w))
    /\ SetWorker(w, [r EXCEPT !.i = r.i + 1, !.pc = "next"])
    /\ UNCHANGED <<files, file_list, file_count, validate_btn, browse_btn,
                   status_text, progress>>

\* Line 282.
ValidCount(results) == Len(SelectSeq(results, LAMBDA x : x[2]))

\* Lines 285-290.
RECURSIVE ResultLines(_)
ResultLines(results) ==
    IF results = <<>> THEN ""
    ELSE LET x == Head(results) IN
         (IF x[2] THEN OkMark \o Basename(x[1]) \o ": Valid\n"
                  ELSE ErrMark \o Basename(x[1]) \o ": " \o StrOpt(x[3]) \o "\n")
            \o ResultLines(Tail(results))

\* Lines 283-290.
Summary(results, total_files) ==
    "Validation complete: " \o ToStr(ValidCount(results)) \o "/"
        \o ToStr(total_files) \o " files valid\n\n" \o ResultLines(results)

\* Lines 282-292.
WReport(w) ==
    LET r == workers[w] IN
    /\ r.pc = "report"
    /\ afterq' = Append(afterq,
                   Callback("update_status", Summary(r.results, r.total_files), NoValue, w))
    /\ SetWorker(w, [r EXCEPT !.pc = "finally",
                              !.summary = IF /\ r.total_files = Len(r.start)
                                             /\ [n \in DOMAIN r.results |-> r.results[n][1]]
                                                   = r.start
                                            THEN "full" ELSE "partial"])
    /\ UNCHANGED <<files, file_list, file_count, validate_btn, browse_btn,
                   status_text, progress>>

\* Line 296.
WFinallyValidate(w) ==
    LET r == workers[w] IN
    /\ r.pc = "finally"
    /\ afterq' = Append(afterq, Callback("validate_btn", "", NoValue, w))
    /\ SetWorker(w, [r EXCEPT !.pc = "finally2"])
    /\ UNCHANGED <<files, file_list, file_count, validate_btn, browse_btn,
                   status_text, progress>>

\* Line 297; the thread then ends, with the exception if there is one.
WFinallyBrowse(w) ==
    LET r == workers[w] IN
    /\ r.pc = "finally2"
    /\ afterq' = Append(afterq, Callback("browse_btn", "", NoValue, w))
    /\ SetWorker(w, EndedWorker(r))
    /\ UNCHANGED <<files, file_list, file_count, validate_btn, browse_btn,
                   status_text, progress>>

\* The objects the offered paths name: a valid archive and a file that is
\* not an archive.
GuiDisk ==
    [p \in Paths |-> IF p = "a.zip"
                       THEN Sound(p, FullTree,
                                  [b \in Bases |-> [err |-> "none", n |-> MaxFeatures]])
                       ELSE NotArchive(p, TRUE)]

\* Lines 77-95, 98-183: the window after construction.
InitGUI ==
    /\ SingleOff
    /\ disk = GuiDisk
    /\ tmproot = [d \in DirNames |-> NoDir]
    /\ calls = [c \in CallIds |-> [NewCall("a.zip") EXCEPT !.pc = "off"]]
    /\ files = <<>>
    /\ file_list = <<>>
    /\ file_count = <<0, "files">>
    /\ validate_btn = "normal"
    /\ browse_btn = "normal"
    /\ status_text = ""
    /\ progress = NoValue
    /\ workers = <<>>
    /\ afterq = <<>>

NextGUI ==
    \/ ClearFiles /\ UNCHANGED <<vars, callVars>>
    \/ RemoveSelected /\ UNCHANGED <<vars, callVars>>
    \/ BrowseFiles /\ UNCHANGED <<vars, callVars>>
    \/ ValidateThreaded /\ UNCHANGED <<vars, callVars>>
    \/ Dispatch /\ UNCHANGED <<vars, callVars>>
    \/ \E w \in DOMAIN workers : WCount(w) /\ UNCHANGED <<vars, callVars>>
    \/ \E w \in DOMAIN workers : WIter(w) /\ UNCHANGED <<vars, callVars>>
    \/ \E w \in DOMAIN workers : WNextItem(w) /\ UNCHANGED <<vars, callVars>>
    \/ \E w \in DOMAIN workers : WValidate(w) /\ UNCHANGED <<vars, callVars>>
    \/ \E w \in DOMAIN workers : WProgress(w) /\ UNCHANGED <<vars, callVars>>
    \/ \E w \in DOMAIN workers : WReport(w) /\ UNCHANGED <<vars, callVars>>
    \/ \E w \in DOMAIN workers : WFinallyValidate(w) /\ UNCHANGED <<vars, callVars>>
    \/ \E w \in DOMAIN workers : WFinallyBrowse(w) /\ UNCHANGED <<vars, callVars>>

\* The window, its worker threads and the user, under every interleaving.
SpecGUI == InitGUI /\ [][NextGUI]_allvars

(***************************************************************************)
(* Vocabulary of the properties of the window.                             *)
(***************************************************************************)
\* Worker w is between the start of validate_files and its finally block.
InTry(w) == workers[w].pc \in {"len", "iter", "next", "validate", "progress", "report"}

\* Worker w has ended and the main loop has run every callback it scheduled.
RunOver(w) ==
    /\ workers[w].pc = "ended"
    /\ \A n \in DOMAIN afterq : afterq[n].run # w

(***************************************************************************)
(* C17.  As claimed: once the worker of a run has ended and its callbacks  *)
(* have run, the display has shown the run's summary, and the summary had  *)
(* one line for each file that was in the list when the run started and    *)
(* counted that many files.                                                *)
(***************************************************************************)
C17_EveryRunShowsFullSummary ==
    \A w \in DOMAIN workers :
        RunOver(w) => workers[w].shown /\ workers[w].summary = "full"

(***************************************************************************)
(* C18.  As claimed: while a worker is between the start of validate_files *)
(* and its finally block, the Validate and the Browse button are disabled. *)
(***************************************************************************)
C18_DisabledWhileRunning ==
    \A w \in DOMAIN workers :
        InTry(w) => validate_btn = Disabled /\ browse_btn = Disabled

(***************************************************************************)
(* C19.  A worker is started only when every worker started before it has  *)
(* left its loop and scheduled the re-enabling of the Validate button, so  *)
(* at most one worker is between the start of validate_files and its       *)
(* finally block, and the Validate button is disabled while one is.        *)
(***************************************************************************)
C19_OneWorker ==
    /\ \A w \in DOMAIN workers :
          w < Len(workers) => workers[w].pc \in {"finally2", "ended"}
    /\ \A w \in DOMAIN workers : InTry(w) => validate_btn = Disabled

\* A second worker validates a file while the first, which has scheduled
\* the re-enabling of the Validate button, has not ended.
C19_Witness ==
    /\ Len(workers) = 2
    /\ workers[1].pc = "finally2"
    /\ workers[2].pc = "validate"

(***************************************************************************)
(* C20.  As claimed: a worker is started only for a list that is not       *)
(* empty, and the total_files a worker divides by is at least 1.           *)
(***************************************************************************)
C20_NeverEmpty ==
    \A w \in DOMAIN workers :
        workers[w].pc \notin {"len", "ended"}
            => workers[w].start # <<>> /\ workers[w].total_files >= 1

(***************************************************************************)
(* C21.  Whatever the user has done with Browse, Remove Selected and Clear *)
(* All, the items of the listbox are the keys of self.files in the same    *)
(* order, no path is listed twice, every item ends in '.zip' once put in   *)
(* lower case, the count label gives their number, and add_files for a     *)
(* path that is listed already or that does not end in '.zip' leaves the   *)
(* dict, the listbox and the label as they are.                            *)
(***************************************************************************)
C21_ListboxIsTheKeys ==
    /\ file_list = Keys(files)
    /\ \A m \in DOMAIN file_list, n \in DOMAIN file_list :
          file_list[m] = file_list[n] => m = n
    /\ \A n \in DOMAIN file_list : LowerEndsWithZip(file_list[n])
    /\ file_count = UpdateFileCount(files)
    /\ \A path \in Offered :
          DictHas(files, path) \/ ~LowerEndsWithZip(path)
              => /\ AddLoop(files, file_list, <<path>>) = <<files, file_list>>
                 /\ UpdateFileCount(AddLoop(files, file_list, <<path>>)[1]) = file_count

\* The name in capitals is listed, after a file listed before it was
\* removed.
C21_Witness ==
    /\ files = <<Dummy, "dir/C.ZIP">>
    /\ file_list = <<"dir/C.ZIP">>
    /\ file_count = <<1, "file">>

(***************************************************************************)
(* C22.  As claimed (no library call failing for a reason outside the      *)
(* target): the .shp path the locate step selects is a regular file; a     *)
(* call that got past the component check found a regular .shx and a       *)
(* regular .dbf file; and a sound archive whose *.shp entries are all      *)
(* directories gets 'No .shp file found in zip archive'.                   *)
(***************************************************************************)
\* The target is a sound archive with *.shp entries, all of them directories.
OnlyShpDirectories ==
    /\ target.isPath /\ target.exists /\ target.readable /\ target.endrec
    /\ target.defect = "none"
    /\ \E b \in Bases : target.tree[b][".shp"] = "dir"
    /\ \A b \in Bases : target.tree[b][".shp"] # "file"

C22_ComponentsAreFiles ==
    faultAt = "none" =>
        /\ shp_path # <<>> => target.tree[Selected][".shp"] = "file"
        /\ pc \in {"read", "len"} =>
              /\ target.tree[Selected][".shx"] = "file"
              /\ target.tree[Selected][".dbf"] = "file"
        /\ Returned /\ OnlyShpDirectories => result = Fail(NoShpMsg)

====
